---------------------------- MODULE Spec2Model ----------------------------
(***************************************************************************)
(* Model of the soberoctobr backend: the store of challenges, habits and   *)
(* daily entries, the handlers of app/api/challenges.py, habits.py and     *)
(* entries.py, and the progress report computed by get_challenge_progress. *)
(*                                                                         *)
(* A datetime is a record [day, hour, minute, second, microsecond, tz]:    *)
(* the calendar day (an integer), the time of day, and the tzinfo ("none"  *)
(* for a naive value).  The handlers are called on the hour.  Fields of    *)
(* the rows that no modelled handler reads (name, type, target_count,      *)
(* preferred_time, template_id, updated_at) are left out.                  *)
(*                                                                         *)
(* current_user is the user of the token the requests carry.  calls holds, *)
(* for each request that runs query by query, what the request has read    *)
(* so far.  normalize_call holds the argument and the result of a call of  *)
(* normalize_date that is followed by itself.                              *)
(***************************************************************************)
EXTENDS Integers, Sequences, FiniteSets, TLC

VARIABLES now, challenges, habits, entries, response, calls, current_user,
          normalize_call

vars == <<now, challenges, habits, entries, response, calls, current_user,
          normalize_call>>

---------------------------------------------------------------------------
(* Bounds of the model *)

\* the clock runs over the days 0 .. MaxDay in the handler specification
MaxDay == 2
\* habit rows that can be created
MaxHabits == 2
\* entry rows that can exist at once
MaxEntries == 2
\* habits of one bulk request
MaxBulk == 2
\* concurrent requests for the progress report
MaxReaders == 2
\* days before today, besides today, that carry entries in CalcInit
CalcWindow == 1
\* days before the four days of scenario A that carry any entries
ScenarioWindow == 2
\* challenge rows that can exist at once
MaxChallenges == 1

---------------------------------------------------------------------------
(* Program constants *)

HoursPerDay == 24
\* timedelta(days=30) of create_challenge
ChallengeDays == 30
\* the cap of current_day
CurrentDayCap == 30
\* total_days of the report of a challenge without active habits
EmptyTotalDays == 30
\* the habit limit of create_habit and create_habits_bulk
MaxActiveHabits == 10
\* range(6, -1, -1): the first offset of the last-7-days loop
Last7First == 6

---------------------------------------------------------------------------
(* datetime *)

NoTz == "none"

\* a datetime on the hour: the day as a number, the time of day, the tzinfo
Dt(d, h, z) ==
    [day |-> d, hour |-> h, minute |-> 0, second |-> 0, microsecond |-> 0, tz |-> z]

\* the instant of a datetime on the hour as a number of hours, its tz tag
\* dropped
DtHours(dt) == dt.day * HoursPerDay + dt.hour

\* a <= b on datetimes
DtLE(a, b) == DtHours(a) <= DtHours(b)

DtLT(a, b) == DtHours(a) < DtHours(b)

\* (a - b).days: timedelta normalises to a floored number of days
DeltaDays(a, b) == (DtHours(a) - DtHours(b)) \div HoursPerDay

\* dt + timedelta(days=n)
PlusDays(dt, n) == [dt EXCEPT !.day = @ + n]

\* max(a, b) of two datetimes
DtMax(a, b) == IF DtLT(a, b) THEN b ELSE a

Max(a, b) == IF a < b THEN b ELSE a

Min(a, b) == IF a < b THEN a ELSE b

\* the offset of a tzinfo from UTC, in hours
UtcOffset(tz) == CASE tz = "+09:00" -> 9
                   [] tz = "-05:00" -> 0 - 5
                   [] OTHER -> 0

\* the function converting an aware datetime to UTC before it drops the tzinfo
normalize_date_in_utc(dt) ==
    LET hours == DtHours(dt) - UtcOffset(dt.tz)
        naive == [dt EXCEPT !.tz = NoTz, !.day = hours \div HoursPerDay]
    IN  [naive EXCEPT !.hour = 0, !.minute = 0, !.second = 0, !.microsecond = 0]

normalize_date(dt) ==
    LET naive == IF dt.tz # NoTz THEN [dt EXCEPT !.tz = NoTz] ELSE dt
    IN  [naive EXCEPT !.hour = 0, !.minute = 0, !.second = 0, !.microsecond = 0]

---------------------------------------------------------------------------
(* The store.  A challenge row is [id, user_id, status, start_date,        *)
(* end_date]; a habit row is [id, challenge_id, created_at, is_active,     *)
(* order]; an entry row is [id, habit_id, date, completed, count].  An     *)
(* optional value is a set: None is {} and a given value v is {v}.         *)

None == {}

Some(v) == {v}

The(opt) == CHOOSE v \in opt : TRUE

\* ORDER BY habits."order"; rows of equal order are taken by id
HabitBefore(a, b) == a.order < b.order \/ (a.order = b.order /\ a.id <= b.id)

RECURSIVE OrderedHabits(_)
OrderedHabits(rows) ==
    IF rows = {} THEN <<>>
    ELSE LET first == CHOOSE a \in rows : \A b \in rows : HabitBefore(a, b)
         IN  <<first>> \o OrderedHabits(rows \ {first})

AllHabitsOrdered(hs) == OrderedHabits(hs)

\* the query of the active habits of the challenge, in display order
ActiveHabits(hs) == OrderedHabits({h \in hs : h.is_active})

HabitIds(hseq) == {hseq[i].id : i \in 1..Len(hseq)}

\* the query of the entries of the active habits dated in [start_date, today]
AllEntries(hseq, es, start_date, today) ==
    {e \in es : /\ e.habit_id \in HabitIds(hseq)
                /\ DtLE(start_date, e.date)
                /\ DtLE(e.date, today)}

---------------------------------------------------------------------------
(* get_challenge_progress *)

DaysElapsed(start_date, today) == Max(0, DeltaDays(today, start_date))

CurrentDay(start_date, today) == Min(DaysElapsed(start_date, today) + 1, CurrentDayCap)

TotalDays(start_date, end_date) == DeltaDays(end_date, start_date) + 1

\* the rows with completed = false, counted in place of the completed ones
OpenCount(rows) == Cardinality({e \in rows : ~e.completed})

CompletedOrCounted(rows) ==
    Cardinality({e \in rows : e.completed \/ (e.count # None /\ The(e.count) > 0)})

\* sum(1 for e in rows if e.completed)
CompletedCount(rows) == Cardinality({e \in rows : e.completed})

HabitTotalDaysNoPlusOne(habit, start_date, today, current_day) ==
    LET habit_created == normalize_date(habit.created_at)
        habit_start == DtMax(habit_created, start_date)
        habit_days_active == Min(DeltaDays(today, habit_start), current_day)
    IN  Max(0, habit_days_active)

HabitTotalDaysFromStart(habit, start_date, today, current_day) ==
    Max(0, Min(DeltaDays(today, start_date) + 1, current_day))

\* the days a habit has been active, capped at the day counter
HabitTotalDays(habit, start_date, today, current_day) ==
    LET habit_created == normalize_date(habit.created_at)
        habit_start == DtMax(habit_created, start_date)
        habit_days_active == Min(DeltaDays(today, habit_start) + 1, current_day)
    IN  Max(0, habit_days_active)

RECURSIVE TotalPossibleHabits(_, _, _, _)
TotalPossibleHabits(hseq, start_date, today, current_day) ==
    IF hseq = <<>> THEN 0
    ELSE HabitTotalDays(Head(hseq), start_date, today, current_day)
         + TotalPossibleHabits(Tail(hseq), start_date, today, current_day)

\* round((c / t) * 100) for t > 0: Python rounds a double to the nearest
\* integer and a tie to the even one.  For c <= 22 the double (c / t) * 100
\* is a tie exactly when 100 * c / t is.
PyRound(c, t) ==
    LET q == (100 * c) \div t
        r == (100 * c) % t
    IN  IF 2 * r < t THEN q
        ELSE IF 2 * r > t THEN q + 1
        ELSE IF q % 2 = 0 THEN q ELSE q + 1

CompletionPercentage(c, t) == IF t > 0 THEN PyRound(c, t) ELSE 0

get_active_habits_for_date(hseq, check_date) ==
    SelectSeq(hseq, LAMBDA h : DtLE(normalize_date(h.created_at), check_date))

\* entries_by_date.get(check_date, [])
DayEntries(all_entries, check_date) ==
    {e \in all_entries : normalize_date(e.date) = check_date}

IsPerfectDayUnguarded(hseq, all_entries, check_date) ==
    CompletedCount(DayEntries(all_entries, check_date))
        = Len(get_active_habits_for_date(hseq, check_date))

\* the test of the streak scans and of is_perfect
IsPerfectDay(hseq, all_entries, check_date) ==
    LET completed_count == CompletedCount(DayEntries(all_entries, check_date))
        active_habits == get_active_habits_for_date(hseq, check_date)
    IN  Len(active_habits) > 0 /\ completed_count = Len(active_habits)

\* the forward scan with longest_streak = temp_streak in place of the max
RECURSIVE LongestStreakScanNoMax(_, _, _, _, _, _)
LongestStreakScanNoMax(hseq, all_entries, check_date, today, temp_streak, longest_streak) ==
    IF ~DtLE(check_date, today) THEN longest_streak
    ELSE IF IsPerfectDay(hseq, all_entries, check_date)
         THEN LongestStreakScanNoMax(hseq, all_entries, PlusDays(check_date, 1), today,
                                     temp_streak + 1, temp_streak + 1)
         ELSE LongestStreakScanNoMax(hseq, all_entries, PlusDays(check_date, 1), today,
                                     0, 0)

\* the forward scan from check_date to today
RECURSIVE LongestStreakScan(_, _, _, _, _, _)
LongestStreakScan(hseq, all_entries, check_date, today, temp_streak, longest_streak) ==
    IF ~DtLE(check_date, today) THEN longest_streak
    ELSE IF IsPerfectDay(hseq, all_entries, check_date)
         THEN LongestStreakScan(hseq, all_entries, PlusDays(check_date, 1), today,
                                temp_streak + 1, Max(longest_streak, temp_streak + 1))
         ELSE LongestStreakScan(hseq, all_entries, PlusDays(check_date, 1), today,
                                0, longest_streak)

CurrentStreakFromToday(today) == today

\* check_date = today - timedelta(days=1): where the backward scan starts
CurrentStreakFrom(today) == PlusDays(today, -1)

\* the backward scan from check_date down to start_date
RECURSIVE CurrentStreakScan(_, _, _, _, _)
CurrentStreakScan(hseq, all_entries, check_date, start_date, current_streak) ==
    IF ~DtLE(start_date, check_date) THEN current_streak
    ELSE IF IsPerfectDay(hseq, all_entries, check_date)
         THEN CurrentStreakScan(hseq, all_entries, PlusDays(check_date, -1),
                                start_date, current_streak + 1)
         ELSE current_streak

DayProgress(hseq, all_entries, check_date) ==
    LET completed_count == CompletedCount(DayEntries(all_entries, check_date))
        total_count == Len(get_active_habits_for_date(hseq, check_date))
    IN  [date |-> check_date,
         completed_count |-> completed_count,
         total_count |-> total_count,
         is_perfect |-> IsPerfectDay(hseq, all_entries, check_date),
         completion_percentage |-> CompletionPercentage(completed_count, total_count)]

\* the loop over the last seven days without the test against start_date
RECURSIVE Last7DaysUnclipped(_, _, _, _, _)
Last7DaysUnclipped(hseq, all_entries, i, start_date, today) ==
    IF i < 0 THEN <<>>
    ELSE <<DayProgress(hseq, all_entries, PlusDays(today, -i))>>
         \o Last7DaysUnclipped(hseq, all_entries, i - 1, start_date, today)

\* for i in range(6, -1, -1), from offset i on
RECURSIVE Last7Days(_, _, _, _, _)
Last7Days(hseq, all_entries, i, start_date, today) ==
    IF i < 0 THEN <<>>
    ELSE LET check_date == PlusDays(today, -i)
         IN  (IF DtLT(check_date, start_date) THEN <<>>
              ELSE <<DayProgress(hseq, all_entries, check_date)>>)
             \o Last7Days(hseq, all_entries, i - 1, start_date, today)

HabitProgress(habit, all_entries, start_date, today, current_day) ==
    LET completed_count == CompletedCount({e \in all_entries : e.habit_id = habit.id})
        habit_total_days == HabitTotalDays(habit, start_date, today, current_day)
    IN  [habit_id |-> habit.id,
         completed_count |-> completed_count,
         total_days |-> habit_total_days,
         completion_percentage |-> CompletionPercentage(completed_count, habit_total_days)]

\* the report of a challenge without active habits
EmptyProgress(ch) ==
    [start_date |-> ch.start_date,
     end_date |-> ch.end_date,
     current_day |-> 0,
     total_days |-> EmptyTotalDays,
     days_elapsed |-> 0,
     total_habits_completed |-> 0,
     total_possible_habits |-> 0,
     overall_completion_percentage |-> 0,
     current_streak |-> 0,
     longest_streak |-> 0,
     last_7_days |-> <<>>,
     habit_progress |-> <<>>]

\* the report of a challenge with the active habits hseq
FullProgress(ch, hseq, es, utcnow) ==
    LET today == normalize_date(utcnow)
        start_date == normalize_date(ch.start_date)
        end_date == normalize_date(ch.end_date)
        days_elapsed == DaysElapsed(start_date, today)
        current_day == CurrentDay(start_date, today)
        all_entries == AllEntries(hseq, es, start_date, today)
        total_habits_completed == CompletedCount(all_entries)
        total_possible_habits == TotalPossibleHabits(hseq, start_date, today, current_day)
    IN  [start_date |-> ch.start_date,
         end_date |-> ch.end_date,
         current_day |-> current_day,
         total_days |-> TotalDays(start_date, end_date),
         days_elapsed |-> days_elapsed,
         total_habits_completed |-> total_habits_completed,
         total_possible_habits |-> total_possible_habits,
         overall_completion_percentage |->
             CompletionPercentage(total_habits_completed, total_possible_habits),
         current_streak |->
             CurrentStreakScan(hseq, all_entries, CurrentStreakFrom(today), start_date, 0),
         longest_streak |->
             LongestStreakScan(hseq, all_entries, start_date, today, 0, 0),
         last_7_days |-> Last7Days(hseq, all_entries, Last7First, start_date, today),
         habit_progress |->
             [i \in 1..Len(hseq) |->
                 HabitProgress(hseq[i], all_entries, start_date, today, current_day)]]

ProgressAlwaysFull(ch, hs, es, utcnow) == FullProgress(ch, ActiveHabits(hs), es, utcnow)

\* the body of the response of get_challenge_progress
Progress(ch, hs, es, utcnow) ==
    LET hseq == ActiveHabits(hs)
    IN  IF hseq = <<>> THEN EmptyProgress(ch)
        ELSE FullProgress(ch, hseq, es, utcnow)

---------------------------------------------------------------------------
(* Inputs of the handlers *)

\* the hours at which the server clock is read
ClockHours == {9}

\* the instants of the server clock, naive UTC as datetime.utcnow() gives
ClockInstants == {Dt(d, h, NoTz) : d \in 0..MaxDay, h \in ClockHours}

\* start_date of a ChallengeCreate body
StartDates == {Dt(0, 0, NoTz), Dt(1, 15, "utc")}

\* date of a DailyEntryCreate body
EntryDates == {Dt(d, 15, "utc") : d \in 0..(MaxDay + 1)}

\* order of a HabitCreate body (0 is the default)
OrderInputs == {0}

\* count of an entry body
CountInputs == {None, Some(2)}

\* the users of the test fixtures: the one whose token the requests carry
\* unless a specification says otherwise, and another one
test_user == "test_user"

other_user == "other_user"

Users == {test_user, other_user}

ChallengeIdPool == 1..MaxChallenges

\* status of a ChallengeUpdate body, None when the body leaves it out
StatusInputs == {None, Some("completed"), Some("abandoned")}

HabitIdPool == 1..MaxHabits

EntryIdPool == 1..MaxEntries

\* the ids of the pool that no row of the table has
FreeIds(pool, rows) == {i \in pool : i \notin {r.id : r \in rows}}

\* the k-th of them
NthFreeId(pool, rows, k) ==
    CHOOSE i \in FreeIds(pool, rows) :
        Cardinality({j \in FreeIds(pool, rows) : j < i}) = k - 1

\* order of a habit of a HabitBulkCreate body: 0 when left out, or null
BulkOrderInputs == {Some(0), None}

\* the habits lists of the HabitBulkCreate bodies, as their orders
BulkBodies == UNION {[1..n -> BulkOrderInputs] : n \in 1..MaxBulk}

\* uuid.uuid4(): an id no row of the table has
FreshId(pool, rows) == CHOOSE i \in pool : i \notin {r.id : r \in rows}
                                             /\ \A j \in pool : j < i => j \in {r.id : r \in rows}

\* the tzinfo of a datetime: none, UTC, or an offset from UTC
TzInfos == {NoTz, "utc", "+09:00", "-05:00"}

\* the datetimes normalize_date is called with
WrittenDates ==
    {[day |-> d, hour |-> h, minute |-> m, second |-> sec, microsecond |-> us, tz |-> z] :
        d \in 0..MaxDay, h \in {0, 3, 21}, m \in {0, 30}, sec \in {0, 45},
        us \in {0, 999999}, z \in TzInfos}

\* no call of normalize_date is followed
NoNormalizeCall == [dt |-> None, result |-> None]

\* a response without a report
Status(code) == [status |-> code, body |-> None]

\* no request has been answered since the clock moved
NoResponse == Status(0)

\* a call of a handler that is not running: no row read yet.  body is the
\* body of a request of a write handler, habit_count and existing_entry
\* what its query returned
IdleCall == [pc |-> "idle", challenge |-> None, habits |-> <<>>,
             today |-> None, result |-> None,
             body |-> None, habit_count |-> None, existing_entry |-> None]

\* the requests that can be in the handler of get_challenge_progress at once
Readers == 1..MaxReaders

\* the requests that can be in a write handler at once
Writers == Readers

NoCalls == [r \in Readers |-> IdleCall]

---------------------------------------------------------------------------
(* The queries by which the handlers find the row a request addresses *)

\* the challenge of the id that the user of the request owns
OwnedChallenge(challenge_id) ==
    {c \in challenges : c.id = challenge_id /\ c.user_id = current_user}

\* the habit of the id, joined with its challenge, that the user owns
OwnedHabit(habit_id) ==
    {h \in habits : /\ h.id = habit_id
                    /\ \E c \in challenges : /\ c.id = h.challenge_id
                                              /\ c.user_id = current_user}

\* the entry of the id, whoever owns it
EntryOfAnyUser(entry_id) == {e \in entries : e.id = entry_id}

\* the entry of the id, joined with its habit and challenge, that the user owns
OwnedEntry(entry_id) ==
    {e \in entries : /\ e.id = entry_id
                     /\ \E h \in habits : /\ h.id = e.habit_id
                                          /\ \E c \in challenges :
                                                /\ c.id = h.challenge_id
                                                /\ c.user_id = current_user}

\* the habits of a challenge
HabitsOf(challenge_id) == {h \in habits : h.challenge_id = challenge_id}

---------------------------------------------------------------------------
(* The handlers *)

Init ==
    /\ now = Dt(0, 9, NoTz)
    /\ challenges = {}
    /\ habits = {}
    /\ entries = {}
    /\ response = NoResponse
    /\ calls = NoCalls
    /\ normalize_call = NoNormalizeCall
    /\ current_user = test_user

\* the server clock moves on to its next instant
Tick ==
    /\ \E t \in ClockInstants :
          /\ DtLT(now, t)
          /\ \A u \in ClockInstants : DtLT(now, u) => DtLE(t, u)
          /\ now' = t
    /\ response' = NoResponse
    /\ UNCHANGED <<challenges, habits, entries, calls, current_user, normalize_call>>

create_challenge ==
    /\ FreeIds(ChallengeIdPool, challenges) # {}
    /\ \E start_date \in StartDates :
          challenges' = challenges \cup
                           {[id |-> FreshId(ChallengeIdPool, challenges),
                             user_id |-> current_user,
                             status |-> "active",
                             start_date |-> start_date,
                             end_date |-> PlusDays(start_date, ChallengeDays)]}
    /\ response' = Status(201)
    /\ UNCHANGED <<now, habits, entries, calls, current_user, normalize_call>>

\* the limit check with > in place of >=
HabitLimitExceeded(habit_count) == habit_count > MaxActiveHabits

\* if habit_count >= 10
HabitLimitReached(habit_count) == habit_count >= MaxActiveHabits

\* POST /challenges/{challenge_id}/habits with the order of the body
post_habit(challenge_id, order) ==
    /\ IF OwnedChallenge(challenge_id) = {}
       THEN /\ response' = Status(404)
            /\ UNCHANGED habits
       ELSE LET habit_count ==
                    Cardinality({h \in HabitsOf(challenge_id) : h.is_active})
            IN  IF HabitLimitReached(habit_count)
                THEN /\ response' = Status(400)
                     /\ UNCHANGED habits
                ELSE /\ FreeIds(HabitIdPool, habits) # {}
                     /\ habits' = habits \cup
                           {[id |-> FreshId(HabitIdPool, habits),
                             challenge_id |-> challenge_id,
                             created_at |-> Dt(now.day, now.hour, "utc"),
                             is_active |-> TRUE,
                             order |-> IF order # 0 THEN order ELSE habit_count]}
                     /\ response' = Status(201)
    /\ UNCHANGED <<now, challenges, entries, calls, current_user, normalize_call>>

create_habit ==
    \E challenge_id \in ChallengeIdPool, order \in OrderInputs :
       post_habit(challenge_id, order)

\* POST /challenges/{challenge_id}/habits/bulk; orders[idx] is the order of
\* the idx-th habit of the body, None for an explicit null
post_habits_bulk(challenge_id, orders) ==
    /\ IF OwnedChallenge(challenge_id) = {}
       THEN /\ response' = Status(404)
            /\ UNCHANGED habits
       ELSE LET current_habit_count ==
                    Cardinality({h \in HabitsOf(challenge_id) : h.is_active})
                total_habits == current_habit_count + Len(orders)
            IN  IF total_habits > MaxActiveHabits
                THEN /\ response' = Status(400)
                     /\ UNCHANGED habits
                ELSE /\ Cardinality(FreeIds(HabitIdPool, habits)) >= Len(orders)
                     /\ habits' = habits \cup
                           {[id |-> NthFreeId(HabitIdPool, habits, idx),
                             challenge_id |-> challenge_id,
                             created_at |-> Dt(now.day, now.hour, "utc"),
                             is_active |-> TRUE,
                             order |-> IF orders[idx] # None THEN The(orders[idx])
                                       ELSE current_habit_count + (idx - 1)] :
                            idx \in 1..Len(orders)}
                     /\ response' = Status(201)
    /\ UNCHANGED <<now, challenges, entries, calls, current_user, normalize_call>>

create_habits_bulk ==
    \E challenge_id \in ChallengeIdPool, orders \in BulkBodies :
       post_habits_bulk(challenge_id, orders)

\* PUT /habits/{habit_id} with the body (order, is_active), None for a
\* field the body leaves out
put_habit(habit_id, order, is_active) ==
    /\ IF OwnedHabit(habit_id) # {}
       THEN LET habit == The(OwnedHabit(habit_id))
                ordered == IF order # None THEN [habit EXCEPT !.order = The(order)]
                           ELSE habit
                updated == IF is_active # None
                           THEN [ordered EXCEPT !.is_active = The(is_active)]
                           ELSE ordered
            IN  /\ habits' = (habits \ {habit}) \cup {updated}
                /\ response' = Status(200)
       ELSE /\ response' = Status(404)
            /\ UNCHANGED habits
    /\ UNCHANGED <<now, challenges, entries, calls, current_user, normalize_call>>

update_habit ==
    \E habit_id \in HabitIdPool, order \in {None} \cup {Some(o) : o \in OrderInputs},
       is_active \in {None, Some(TRUE), Some(FALSE)} :
       put_habit(habit_id, order, is_active)

\* the handler deleting the habit row, and with it the entries of the habit
delete_habit_cascade(habit_id) ==
    /\ IF OwnedHabit(habit_id) # {}
       THEN /\ habits' = {h \in habits : h.id # habit_id}
            /\ entries' = {e \in entries : e.habit_id # habit_id}
            /\ response' = Status(204)
       ELSE /\ response' = Status(404)
            /\ UNCHANGED <<habits, entries>>
    /\ UNCHANGED <<now, challenges, calls, current_user, normalize_call>>

\* DELETE /habits/{habit_id}
delete_habit_by_id(habit_id) ==
    /\ IF OwnedHabit(habit_id) # {}
       THEN LET habit == The(OwnedHabit(habit_id))
            IN  /\ habits' = (habits \ {habit}) \cup {[habit EXCEPT !.is_active = FALSE]}
                /\ response' = Status(204)
       ELSE /\ response' = Status(404)
            /\ UNCHANGED habits
    /\ UNCHANGED <<now, challenges, entries, calls, current_user, normalize_call>>

delete_habit == \E habit_id \in HabitIdPool : delete_habit_by_id(habit_id)

\* the date checks without the one against the challenge end
EntryDateRejectedNoEnd(entry_date, today, challenge_start, challenge_end) ==
    \/ DtLT(today, entry_date)
    \/ DtLT(entry_date, challenge_start)

\* the date checks without the one against today
EntryDateRejectedNoFuture(entry_date, today, challenge_start, challenge_end) ==
    \/ DtLT(entry_date, challenge_start)
    \/ DtLT(challenge_end, entry_date)

\* the date checks of create_or_update_entry: a future date, a date before
\* the challenge start, a date after the challenge end
EntryDateRejected(entry_date, today, challenge_start, challenge_end) ==
    \/ DtLT(today, entry_date)
    \/ DtLT(entry_date, challenge_start)
    \/ DtLT(challenge_end, entry_date)

NoExistingEntries(es, habit_id, entry_date) == {}

\* the query of the entry of the habit on the date
ExistingEntries(es, habit_id, entry_date) ==
    {e \in es : e.habit_id = habit_id /\ e.date = entry_date}

\* POST /habits/{habit_id}/entries with the body (date, completed, count)
post_habit_entry(habit_id, date, completed, count) ==
    /\    IF OwnedHabit(habit_id) = {}
          THEN /\ response' = Status(404)
               /\ UNCHANGED entries
          ELSE LET habit == The(OwnedHabit(habit_id))
                   challenge == CHOOSE c \in challenges : c.id = habit.challenge_id
                   entry_date == normalize_date(date)
                   today == normalize_date(now)
                   challenge_start == normalize_date(challenge.start_date)
                   challenge_end == normalize_date(challenge.end_date)
                   existing == ExistingEntries(entries, habit_id, entry_date)
               IN  IF EntryDateRejected(entry_date, today, challenge_start, challenge_end)
                   THEN /\ response' = Status(400)
                        /\ UNCHANGED entries
                   ELSE IF existing # {}
                   THEN LET existing_entry == CHOOSE e \in existing : TRUE
                        IN  /\ entries' = (entries \ {existing_entry}) \cup
                                   {[existing_entry EXCEPT !.completed = completed,
                                                           !.count = count]}
                            /\ response' = Status(200)
                   ELSE /\ Cardinality(entries) < MaxEntries
                        /\ entries' = entries \cup
                               {[id |-> FreshId(EntryIdPool, entries),
                                 habit_id |-> habit_id,
                                 date |-> entry_date,
                                 completed |-> completed,
                                 count |-> count]}
                        /\ response' = Status(200)
    /\ UNCHANGED <<now, challenges, habits, calls, current_user, normalize_call>>

create_or_update_entry ==
    \E habit_id \in HabitIdPool, date \in EntryDates, completed \in BOOLEAN,
       count \in CountInputs :
       post_habit_entry(habit_id, date, completed, count)

\* the same request with a body that leaves count out, as for a binary habit
create_or_update_entry_no_count ==
    \E habit_id \in HabitIdPool, date \in EntryDates, completed \in BOOLEAN :
       post_habit_entry(habit_id, date, completed, None)

\* PUT /entries/{entry_id} with the body (completed, count), None for a
\* field the body leaves out
put_entry(entry_id, completed, count) ==
    /\ IF OwnedEntry(entry_id) # {}
       THEN LET entry == The(OwnedEntry(entry_id))
                flagged == IF completed # None
                           THEN [entry EXCEPT !.completed = The(completed)]
                           ELSE entry
                updated == IF count # None THEN [flagged EXCEPT !.count = count]
                           ELSE flagged
            IN  /\ entries' = (entries \ {entry}) \cup {updated}
                /\ response' = Status(200)
       ELSE /\ response' = Status(404)
            /\ UNCHANGED entries
    /\ UNCHANGED <<now, challenges, habits, calls, current_user, normalize_call>>

update_entry ==
    \E entry_id \in EntryIdPool, completed \in {None, Some(TRUE), Some(FALSE)},
       count \in CountInputs :
       put_entry(entry_id, completed, count)

\* the same request with a body that leaves count out
update_entry_no_count ==
    \E entry_id \in EntryIdPool, completed \in {None, Some(TRUE), Some(FALSE)} :
       put_entry(entry_id, completed, None)

\* DELETE /entries/{entry_id}
delete_entry_by_id(entry_id) ==
    /\ IF OwnedEntry(entry_id) # {}
       THEN /\ entries' = {e \in entries : e.id # entry_id}
            /\ response' = Status(204)
       ELSE /\ response' = Status(404)
            /\ UNCHANGED entries
    /\ UNCHANGED <<now, challenges, habits, calls, current_user, normalize_call>>

delete_entry == \E entry_id \in EntryIdPool : delete_entry_by_id(entry_id)

\* GET /challenges/{challenge_id}/progress
get_progress(challenge_id) ==
    /\ response' = IF OwnedChallenge(challenge_id) = {} THEN Status(404)
                   ELSE [status |-> 200,
                         body |-> Some(Progress(The(OwnedChallenge(challenge_id)),
                                                HabitsOf(challenge_id), entries, now))]
    /\ UNCHANGED <<now, challenges, habits, entries, calls, current_user, normalize_call>>

get_challenge_progress == \E challenge_id \in ChallengeIdPool : get_progress(challenge_id)

\* a response that carries rows
Rows200(rows) == [status |-> 200, body |-> Some(rows)]

\* GET /challenges: the rows of the list (their order is left out)
get_challenges ==
    /\ response' = Rows200({c \in challenges : c.user_id = current_user})
    /\ UNCHANGED <<now, challenges, habits, entries, calls, current_user, normalize_call>>

\* GET /challenges/{challenge_id}
get_challenge_by_id(challenge_id) ==
    /\ response' = IF OwnedChallenge(challenge_id) = {} THEN Status(404)
                   ELSE Rows200(OwnedChallenge(challenge_id))
    /\ UNCHANGED <<now, challenges, habits, entries, calls, current_user, normalize_call>>

get_challenge == \E challenge_id \in ChallengeIdPool : get_challenge_by_id(challenge_id)

\* PUT /challenges/{challenge_id} with the status of the body
put_challenge(challenge_id, status) ==
    /\ IF OwnedChallenge(challenge_id) = {}
       THEN /\ response' = Status(404)
            /\ UNCHANGED challenges
       ELSE LET challenge == The(OwnedChallenge(challenge_id))
                updated == IF status # None
                           THEN [challenge EXCEPT !.status = The(status)]
                           ELSE challenge
            IN  /\ challenges' = (challenges \ {challenge}) \cup {updated}
                /\ response' = Rows200({updated})
    /\ UNCHANGED <<now, habits, entries, calls, current_user, normalize_call>>

update_challenge ==
    \E challenge_id \in ChallengeIdPool, status \in StatusInputs :
       put_challenge(challenge_id, status)

\* db.delete(challenge) deleting the challenge row alone
delete_challenge_row(challenge_id) ==
    /\ IF OwnedChallenge(challenge_id) = {}
       THEN /\ response' = Status(404)
            /\ UNCHANGED challenges
       ELSE /\ challenges' = challenges \ OwnedChallenge(challenge_id)
            /\ response' = Status(204)
    /\ UNCHANGED <<now, habits, entries, calls, current_user, normalize_call>>

\* DELETE /challenges/{challenge_id}: db.delete(challenge) cascades to the
\* habits of the challenge and to the entries of those habits
delete_challenge_by_id(challenge_id) ==
    /\ IF OwnedChallenge(challenge_id) = {}
       THEN /\ response' = Status(404)
            /\ UNCHANGED <<challenges, habits, entries>>
       ELSE LET deleted == HabitsOf(challenge_id)
            IN  /\ challenges' = challenges \ OwnedChallenge(challenge_id)
                /\ habits' = habits \ deleted
                /\ entries' = {e \in entries : e.habit_id \notin {h.id : h \in deleted}}
                /\ response' = Status(204)
    /\ UNCHANGED <<now, calls, current_user, normalize_call>>

delete_challenge ==
    \E challenge_id \in ChallengeIdPool : delete_challenge_by_id(challenge_id)

\* GET /challenges/{challenge_id}/habits
get_habits_of(challenge_id) ==
    /\ response' = IF OwnedChallenge(challenge_id) = {} THEN Status(404)
                   ELSE Rows200(OrderedHabits(HabitsOf(challenge_id)))
    /\ UNCHANGED <<now, challenges, habits, entries, calls, current_user, normalize_call>>

get_challenge_habits == \E challenge_id \in ChallengeIdPool : get_habits_of(challenge_id)

\* GET /habits/{habit_id}
get_habit_by_id(habit_id) ==
    /\ response' = IF OwnedHabit(habit_id) = {} THEN Status(404)
                   ELSE Rows200(OwnedHabit(habit_id))
    /\ UNCHANGED <<now, challenges, habits, entries, calls, current_user, normalize_call>>

get_habit == \E habit_id \in HabitIdPool : get_habit_by_id(habit_id)

\* GET /habits/{habit_id}/entries without the date filters: the rows of
\* the list (their order is left out)
get_entries_of(habit_id) ==
    /\ response' = IF OwnedHabit(habit_id) = {} THEN Status(404)
                   ELSE Rows200({e \in entries : e.habit_id = habit_id})
    /\ UNCHANGED <<now, challenges, habits, entries, calls, current_user, normalize_call>>

get_habit_entries == \E habit_id \in HabitIdPool : get_entries_of(habit_id)

\* GET /challenges/{challenge_id}/entries/{date}
get_daily_entries(challenge_id, date) ==
    /\ response' =
          IF OwnedChallenge(challenge_id) = {} THEN Status(404)
          ELSE LET normalized_date == normalize_date(date)
                   habit_ids == {h.id : h \in {a \in HabitsOf(challenge_id) : a.is_active}}
               IN  Rows200({e \in entries : /\ e.habit_id \in habit_ids
                                            /\ e.date = normalized_date})
    /\ UNCHANGED <<now, challenges, habits, entries, calls, current_user, normalize_call>>

get_daily_entries_for_challenge ==
    \E challenge_id \in ChallengeIdPool, date \in EntryDates :
       get_daily_entries(challenge_id, date)

\* The handlers over a store that starts empty.  The entry bodies leave count
\* out here: none of these handlers reads the count of a stored entry.
\* SpecEntries draws the count of the bodies, SpecCounted the count of the
\* stored entries.
Next ==
    \/ Tick
    \/ create_challenge
    \/ create_habit
    \/ create_habits_bulk
    \/ update_habit
    \/ delete_habit
    \/ create_or_update_entry_no_count
    \/ update_entry_no_count
    \/ delete_entry
    \/ get_challenge_progress

Spec == Init /\ [][Next]_vars

---------------------------------------------------------------------------
(* The progress report over stores drawn at chosen days.  The challenge    *)
(* starts on day 1; a store holds two habits, created before, on or after  *)
(* the start and each active or archived, and any entries of the last      *)
(* CalcWindow + 1 days that the entry handlers accept: dated within the    *)
(* challenge and not after today.                                          *)

CalcChallenge == [id |-> 1, user_id |-> test_user, status |-> "active",
                  start_date |-> Dt(1, 15, "utc"),
                  end_date |-> PlusDays(Dt(1, 15, "utc"), ChallengeDays)]

\* before the start, the first days, the last day counted, the end date, after it
CalcNowDays == {0, 1, 2, 4, 1 + ChallengeDays - 1, 1 + ChallengeDays, 2 + ChallengeDays}

CalcHabit(id, day, active) ==
    [id |-> id, challenge_id |-> 1, created_at |-> Dt(day, 9, "utc"),
     is_active |-> active, order |-> id - 1]

\* the (habit, day) pairs an entry can be stored for at the instant utcnow
CalcSlots(utcnow) ==
    LET today == normalize_date(utcnow)
        first == normalize_date(CalcChallenge.start_date)
        last == normalize_date(CalcChallenge.end_date)
    IN  {s \in {1, 2} \X ((today.day - CalcWindow)..today.day) :
            first.day <= s[2] /\ s[2] <= last.day}

CalcEntry(slot, completed) ==
    [id |-> 2 * slot[2] + slot[1],
     habit_id |-> slot[1],
     date |-> Dt(slot[2], 0, NoTz),
     completed |-> completed,
     count |-> None]

CalcInit ==
    /\ now \in {Dt(d, 9, NoTz) : d \in CalcNowDays}
    /\ challenges = {CalcChallenge}
    /\ \E d1 \in {0, 1}, d2 \in {1, 3}, a1 \in BOOLEAN, a2 \in BOOLEAN :
          /\ d1 <= now.day
          /\ d2 <= now.day
          /\ habits = {CalcHabit(1, d1, a1), CalcHabit(2, d2, a2)}
    /\ \E f \in [CalcSlots(now) -> {"none", "open", "done"}] :
          entries = {CalcEntry(s, f[s] = "done") : s \in {t \in CalcSlots(now) : f[t] # "none"}}
    /\ response = NoResponse
    /\ calls = NoCalls
    /\ normalize_call = NoNormalizeCall
    /\ current_user = test_user

SpecProgress == CalcInit /\ [][get_challenge_progress]_vars

---------------------------------------------------------------------------
(* Scenario A: the challenge started 15 days ago; two active habits, both  *)
(* active since the start; both completed today and on the two days        *)
(* before; three days ago one of them completed and the other not.  The    *)
(* ScenarioWindow days before that carry any entries.                      *)

ScenarioToday == 1 + 15

ScenarioSlots == {1, 2} \X ((ScenarioToday - 3 - ScenarioWindow)..(ScenarioToday - 4))

ScenarioInit ==
    /\ now = Dt(ScenarioToday, 9, NoTz)
    /\ challenges = {CalcChallenge}
    /\ \E d1 \in {0, 1}, d2 \in {0, 1} :
          habits = {CalcHabit(1, d1, TRUE), CalcHabit(2, d2, TRUE)}
    /\ \E done \in {1, 2}, other \in {"none", "open"},
          f \in [ScenarioSlots -> {"none", "open", "done"}] :
          entries =
              {CalcEntry(<<h, d>>, TRUE) : h \in {1, 2}, d \in (ScenarioToday - 2)..ScenarioToday}
              \cup {CalcEntry(<<done, ScenarioToday - 3>>, TRUE)}
              \cup (IF other = "open"
                    THEN {CalcEntry(<<3 - done, ScenarioToday - 3>>, FALSE)} ELSE {})
              \cup {CalcEntry(s, f[s] = "done") : s \in {t \in ScenarioSlots : f[t] # "none"}}
    /\ response = NoResponse
    /\ calls = NoCalls
    /\ normalize_call = NoNormalizeCall
    /\ current_user = test_user

SpecScenarioA == ScenarioInit /\ [][get_challenge_progress]_vars

---------------------------------------------------------------------------
(* Stores with counted entries: two habits, and for each of them on each   *)
(* of the last CountedWindow days an entry or none, the entry with any     *)
(* completed flag and any count a DailyEntryCreate body can carry.         *)

\* days, ending today, that carry entries in CountedInit
CountedWindow == 1

\* count of a stored entry: not given, 0, or positive
CountValues == {None, Some(0), Some(2)}

CountedSlots(utcnow) ==
    {s \in {1, 2} \X ((utcnow.day - CountedWindow + 1)..utcnow.day) :
        CalcChallenge.start_date.day <= s[2]}

\* what a slot holds: nothing, or the completed flag and the count of its entry
CountedCells == {None} \cup {Some(<<c, n>>) : c \in BOOLEAN, n \in CountValues}

CountedInit ==
    /\ now \in {Dt(d, 9, NoTz) : d \in {1, 2, 4}}
    /\ challenges = {CalcChallenge}
    /\ \E d1 \in {0, 1}, a1 \in BOOLEAN, a2 \in BOOLEAN :
          habits = {CalcHabit(1, d1, a1), CalcHabit(2, 1, a2)}
    /\ \E f \in [CountedSlots(now) -> CountedCells] :
          entries = {[CalcEntry(s, The(f[s])[1]) EXCEPT !.count = The(f[s])[2]] :
                        s \in {t \in CountedSlots(now) : f[t] # None}}
    /\ response = NoResponse
    /\ calls = NoCalls
    /\ normalize_call = NoNormalizeCall
    /\ current_user = test_user

SpecCounted == CountedInit /\ [][get_challenge_progress]_vars

---------------------------------------------------------------------------
(* Stores with archived habits: two habits, each active or archived, in    *)
(* either display order, with any entries of the last ArchivedWindow days. *)

\* days, ending today, that carry entries in ArchivedInit
ArchivedWindow == 2

ArchivedSlots(utcnow) ==
    {s \in {1, 2} \X ((utcnow.day - ArchivedWindow + 1)..utcnow.day) :
        CalcChallenge.start_date.day <= s[2]}

ArchivedInit ==
    /\ now \in {Dt(d, 9, NoTz) : d \in {2, 4}}
    /\ challenges = {CalcChallenge}
    /\ \E d1 \in {0, 2}, a1 \in BOOLEAN, a2 \in BOOLEAN, o \in {0, 1} :
          habits = {[CalcHabit(1, d1, a1) EXCEPT !.order = o],
                    [CalcHabit(2, 1, a2) EXCEPT !.order = 1 - o]}
    /\ \E f \in [ArchivedSlots(now) -> {"none", "open", "done"}] :
          entries = {CalcEntry(s, f[s] = "done") :
                        s \in {t \in ArchivedSlots(now) : f[t] # "none"}}
    /\ response = NoResponse
    /\ calls = NoCalls
    /\ normalize_call = NoNormalizeCall
    /\ current_user = test_user

SpecArchived == ArchivedInit /\ [][get_challenge_progress]_vars

---------------------------------------------------------------------------
(* The entry handlers over a challenge that is under way or about to end.  *)
(* The store starts with a challenge, two habits and no entry; the clock   *)
(* moves forward and the entry handlers are called with any habit id, any  *)
(* date and any flag.                                                      *)

\* a challenge that starts on day 1, and one that ends on day 1
EntriesChallenges ==
    {CalcChallenge,
     [id |-> 1, user_id |-> test_user, status |-> "active",
      start_date |-> Dt(1 - ChallengeDays, 0, NoTz), end_date |-> Dt(1, 0, NoTz)]}

EntriesInit ==
    /\ now = Dt(0, 9, NoTz)
    /\ challenges \in {{c} : c \in EntriesChallenges}
    /\ \E second \in {"none", "active", "archived"} :
          habits = {CalcHabit(1, 0, TRUE)}
                   \cup (IF second = "none" THEN {}
                         ELSE {CalcHabit(2, 0, second = "active")})
    /\ entries = {}
    /\ response = NoResponse
    /\ calls = NoCalls
    /\ normalize_call = NoNormalizeCall
    /\ current_user = test_user

EntriesNext ==
    \/ Tick
    \/ create_or_update_entry
    \/ update_entry
    \/ delete_entry

SpecEntries == EntriesInit /\ [][EntriesNext]_vars

---------------------------------------------------------------------------
(* The habit handlers at the habit limit.  The store starts with a         *)
(* challenge that has 8, 9 or 10 active habits, created before; the habit  *)
(* handlers create further habits, one by one or in bulk, and archive,     *)
(* reactivate and reorder the habits they created.                         *)

\* the active habits the challenge starts with
SeedCounts == {MaxActiveHabits - 2, MaxActiveHabits - 1, MaxActiveHabits}

\* the i-th habit the challenge starts with; its id is outside HabitIdPool
SeedHabit(i) ==
    [id |-> 100 + i, challenge_id |-> 1, created_at |-> Dt(0, 9, "utc"),
     is_active |-> TRUE, order |-> i - 1]

HabitsInit ==
    /\ now = Dt(1, 9, NoTz)
    /\ challenges = {CalcChallenge}
    /\ \E k \in SeedCounts : habits = {SeedHabit(i) : i \in 1..k}
    /\ entries = {}
    /\ response = NoResponse
    /\ calls = NoCalls
    /\ normalize_call = NoNormalizeCall
    /\ current_user = test_user

HabitsNext ==
    \/ create_habit
    \/ create_habits_bulk
    \/ update_habit
    \/ delete_habit

SpecHabits == HabitsInit /\ [][HabitsNext]_vars

---------------------------------------------------------------------------
(* delete_habit and the report, over the stores of ArchivedInit: habits    *)
(* that have entries are archived and the report is read.                  *)

DeleteHabitNext ==
    \/ delete_habit
    \/ get_challenge_progress

SpecDeleteHabit == ArchivedInit /\ [][DeleteHabitNext]_vars

---------------------------------------------------------------------------
(* Every handler that addresses a challenge, a habit or an entry, called   *)
(* with ids that belong to another user or to no row.  The store holds     *)
(* the challenge of one user, with habits and entries, or no such          *)
(* challenge; the requests carry the token of the other user, who may have *)
(* a challenge of their own that no request addresses.                     *)

\* a habit of challenge 1, created on day 0
UsersHabit(id, active) == CalcHabit(id, 0, active)

\* the entry of the habit of the same id, on the first day of the challenge
UsersEntry(id, completed) ==
    [id |-> id, habit_id |-> id, date |-> Dt(1, 0, NoTz), completed |-> completed,
     count |-> None]

\* a challenge of the user, its id outside ChallengeIdPool
UsersOwnChallenge(user) == [CalcChallenge EXCEPT !.id = 100 + 1, !.user_id = user]

UsersInit ==
    /\ now = Dt(1, 9, NoTz)
    /\ current_user \in Users
    /\ \E owner \in Users \ {current_user}, own \in BOOLEAN, other \in BOOLEAN :
          /\ challenges = (IF own THEN {UsersOwnChallenge(current_user)} ELSE {})
                           \cup (IF other THEN {[CalcChallenge EXCEPT !.user_id = owner]}
                                 ELSE {})
          /\ \E ids \in SUBSET HabitIdPool :
                /\ ~other => ids = {}
                /\ \E active \in [ids -> BOOLEAN] :
                      habits = {UsersHabit(id, active[id]) : id \in ids}
                /\ \E kept \in [ids \cap EntryIdPool -> {"none", "open", "done"}] :
                      entries = {UsersEntry(id, kept[id] = "done") :
                                 id \in {i \in ids \cap EntryIdPool : kept[i] # "none"}}
    /\ response = NoResponse
    /\ calls = NoCalls
    /\ normalize_call = NoNormalizeCall

UsersNext ==
    \/ get_challenges
    \/ get_challenge
    \/ update_challenge
    \/ delete_challenge
    \/ get_challenge_progress
    \/ get_challenge_habits
    \/ create_habit
    \/ create_habits_bulk
    \/ get_habit
    \/ update_habit
    \/ delete_habit
    \/ get_habit_entries
    \/ create_or_update_entry
    \/ get_daily_entries_for_challenge
    \/ update_entry
    \/ delete_entry

SpecUsers == UsersInit /\ [][UsersNext]_vars

---------------------------------------------------------------------------
(* The handlers that create and delete rows, over a challenge of the       *)
(* caller with one habit or more, active or archived, and entries.         *)

CascadeInit ==
    /\ now = Dt(1, 9, NoTz)
    /\ current_user = test_user
    /\ challenges = {CalcChallenge}
    /\ \E ids \in (SUBSET HabitIdPool) \ {{}} :
          /\ \E active \in [ids -> BOOLEAN] :
                habits = {UsersHabit(id, active[id]) : id \in ids}
          /\ \E kept \in [ids \cap EntryIdPool -> {"none", "open", "done"}] :
                entries = {UsersEntry(id, kept[id] = "done") :
                           id \in {i \in ids \cap EntryIdPool : kept[i] # "none"}}
    /\ response = NoResponse
    /\ calls = NoCalls
    /\ normalize_call = NoNormalizeCall

CascadeNext ==
    \/ create_challenge
    \/ delete_challenge
    \/ create_habit
    \/ create_habits_bulk
    \/ delete_habit
    \/ create_or_update_entry
    \/ delete_entry

SpecCascade == CascadeInit /\ [][CascadeNext]_vars

---------------------------------------------------------------------------
(* normalize_date by itself: it is called with a datetime of any time of   *)
(* day and any tzinfo, and returns.                                        *)

NormalizeInit ==
    /\ now = Dt(0, 9, NoTz)
    /\ challenges = {}
    /\ habits = {}
    /\ entries = {}
    /\ response = NoResponse
    /\ calls = NoCalls
    /\ current_user = test_user
    /\ \E dt \in WrittenDates : normalize_call = [dt |-> Some(dt), result |-> None]

\* the call returns
normalize_date_returns ==
    /\ normalize_call.result = None
    /\ normalize_call' = [normalize_call EXCEPT
                            !.result = Some(normalize_date(The(normalize_call.dt)))]
    /\ UNCHANGED <<now, challenges, habits, entries, response, calls, current_user>>

SpecNormalize == NormalizeInit /\ [][normalize_date_returns]_vars

---------------------------------------------------------------------------
(* get_challenge_progress query by query.  Each request runs the queries   *)
(* of the handler in their order: the challenge, the active habits, then   *)
(* the clock and the entries; what it has read so far is in calls[r], and  *)
(* the requests of different readers interleave between the queries.       *)

\* the query of the challenge row
progress_query_challenge(r) ==
    /\ calls[r].pc \in {"idle", "done"}
    /\ \E challenge_id \in ChallengeIdPool :
          IF OwnedChallenge(challenge_id) = {}
          THEN /\ calls' = [calls EXCEPT ![r] = [IdleCall EXCEPT !.pc = "done"]]
               /\ response' = Status(404)
          ELSE /\ calls' = [calls EXCEPT ![r] =
                               [IdleCall EXCEPT !.pc = "challenge",
                                                !.challenge = OwnedChallenge(challenge_id)]]
               /\ UNCHANGED response
    /\ UNCHANGED <<now, challenges, habits, entries, current_user, normalize_call>>

\* the query of the active habits, and the report of a challenge without any
progress_query_habits(r) ==
    /\ calls[r].pc = "challenge"
    /\ LET hseq == ActiveHabits(HabitsOf(The(calls[r].challenge).id))
       IN  IF hseq = <<>>
           THEN LET report == EmptyProgress(The(calls[r].challenge))
                IN  /\ calls' = [calls EXCEPT ![r].pc = "done",
                                              ![r].today = Some(normalize_date(now)),
                                              ![r].result = Some(report)]
                    /\ response' = [status |-> 200, body |-> Some(report)]
           ELSE /\ calls' = [calls EXCEPT ![r].pc = "habits", ![r].habits = hseq]
                /\ UNCHANGED response
    /\ UNCHANGED <<now, challenges, habits, entries, current_user, normalize_call>>

\* the step below, also deleting the entries its query did not select
progress_query_entries_pruning(r) ==
    /\ calls[r].pc = "habits"
    /\ LET ch == The(calls[r].challenge)
           report == FullProgress(ch, calls[r].habits, entries, now)
       IN  /\ calls' = [calls EXCEPT ![r].pc = "done",
                                     ![r].today = Some(normalize_date(now)),
                                     ![r].result = Some(report)]
           /\ response' = [status |-> 200, body |-> Some(report)]
           /\ entries' = AllEntries(calls[r].habits, entries,
                                    normalize_date(ch.start_date), normalize_date(now))
    /\ UNCHANGED <<now, challenges, habits, current_user, normalize_call>>

\* the read of the clock, the query of the entries and the report
progress_query_entries(r) ==
    /\ calls[r].pc = "habits"
    /\ LET report == FullProgress(The(calls[r].challenge), calls[r].habits, entries, now)
       IN  /\ calls' = [calls EXCEPT ![r].pc = "done",
                                     ![r].today = Some(normalize_date(now)),
                                     ![r].result = Some(report)]
           /\ response' = [status |-> 200, body |-> Some(report)]
    /\ UNCHANGED <<now, challenges, habits, entries, current_user, normalize_call>>

ReadersInit ==
    /\ now \in {Dt(1, 9, NoTz), Dt(2, 9, NoTz)}
    /\ challenges = {CalcChallenge}
    /\ \E a1 \in BOOLEAN, a2 \in BOOLEAN :
          habits = {CalcHabit(1, 0, a1), CalcHabit(2, 1, a2)}
    /\ \E done \in SUBSET ({1, 2} \X (1..now.day)) :
          entries = {CalcEntry(s, TRUE) : s \in done}
    /\ response = NoResponse
    /\ calls = NoCalls
    /\ normalize_call = NoNormalizeCall
    /\ current_user = test_user

ReadersNext ==
    \/ Tick
    \/ \E r \in Readers : progress_query_challenge(r)
    \/ \E r \in Readers : progress_query_habits(r)
    \/ \E r \in Readers : progress_query_entries(r)

SpecReaders == ReadersInit /\ [][ReadersNext]_vars

---------------------------------------------------------------------------
(* create_habit and create_habits_bulk query by query.  Each request       *)
(* counts the active habits of the challenge and, when the limit allows,   *)
(* adds its rows and commits; what it has read is in calls[r], and the     *)
(* requests of different writers interleave between the count and the      *)
(* commit.                                                                 *)

\* the request is answered without a write
Answer(r, code) ==
    /\ calls' = [calls EXCEPT ![r] = [IdleCall EXCEPT !.pc = "done"]]
    /\ response' = Status(code)

\* create_habit: the query of the challenge and the count of its active habits
create_habit_count(r) ==
    /\ calls[r].pc \in {"idle", "done"}
    /\ \E challenge_id \in ChallengeIdPool, order \in OrderInputs :
          IF OwnedChallenge(challenge_id) = {}
          THEN Answer(r, 404)
          ELSE LET habit_count ==
                       Cardinality({h \in HabitsOf(challenge_id) : h.is_active})
               IN  IF HabitLimitReached(habit_count)
                   THEN Answer(r, 400)
                   ELSE /\ calls' = [calls EXCEPT ![r] =
                               [IdleCall EXCEPT
                                   !.pc = "counted",
                                   !.body = Some([challenge_id |-> challenge_id,
                                                  order |-> order]),
                                   !.habit_count = Some(habit_count)]]
                        /\ UNCHANGED response
    /\ UNCHANGED <<now, challenges, habits, entries, current_user, normalize_call>>

\* create_habit: db.add(habit) and db.commit()
create_habit_commit(r) ==
    /\ calls[r].pc = "counted"
    /\ LET body == The(calls[r].body)
           habit_count == The(calls[r].habit_count)
       IN  /\ FreeIds(HabitIdPool, habits) # {}
           /\ habits' = habits \cup
                 {[id |-> FreshId(HabitIdPool, habits),
                   challenge_id |-> body.challenge_id,
                   created_at |-> Dt(now.day, now.hour, "utc"),
                   is_active |-> TRUE,
                   order |-> IF body.order # 0 THEN body.order ELSE habit_count]}
    /\ response' = Status(201)
    /\ calls' = [calls EXCEPT ![r].pc = "done"]
    /\ UNCHANGED <<now, challenges, entries, current_user, normalize_call>>

\* create_habits_bulk: the query of the challenge and the count of its
\* active habits
create_habits_bulk_count(r) ==
    /\ calls[r].pc \in {"idle", "done"}
    /\ \E challenge_id \in ChallengeIdPool, orders \in BulkBodies :
          IF OwnedChallenge(challenge_id) = {}
          THEN Answer(r, 404)
          ELSE LET current_habit_count ==
                       Cardinality({h \in HabitsOf(challenge_id) : h.is_active})
                   total_habits == current_habit_count + Len(orders)
               IN  IF total_habits > MaxActiveHabits
                   THEN Answer(r, 400)
                   ELSE /\ calls' = [calls EXCEPT ![r] =
                               [IdleCall EXCEPT
                                   !.pc = "bulk_counted",
                                   !.body = Some([challenge_id |-> challenge_id,
                                                  orders |-> orders]),
                                   !.habit_count = Some(current_habit_count)]]
                        /\ UNCHANGED response
    /\ UNCHANGED <<now, challenges, habits, entries, current_user, normalize_call>>

\* create_habits_bulk: db.add of every habit and db.commit()
create_habits_bulk_commit(r) ==
    /\ calls[r].pc = "bulk_counted"
    /\ LET body == The(calls[r].body)
           current_habit_count == The(calls[r].habit_count)
       IN  /\ Cardinality(FreeIds(HabitIdPool, habits)) >= Len(body.orders)
           /\ habits' = habits \cup
                 {[id |-> NthFreeId(HabitIdPool, habits, idx),
                   challenge_id |-> body.challenge_id,
                   created_at |-> Dt(now.day, now.hour, "utc"),
                   is_active |-> TRUE,
                   order |-> IF body.orders[idx] # None THEN The(body.orders[idx])
                             ELSE current_habit_count + (idx - 1)] :
                  idx \in 1..Len(body.orders)}
    /\ response' = Status(201)
    /\ calls' = [calls EXCEPT ![r].pc = "done"]
    /\ UNCHANGED <<now, challenges, entries, current_user, normalize_call>>

HabitRaceNext ==
    \/ \E r \in Writers : create_habit_count(r)
    \/ \E r \in Writers : create_habit_commit(r)
    \/ \E r \in Writers : create_habits_bulk_count(r)
    \/ \E r \in Writers : create_habits_bulk_commit(r)

SpecHabitRace == HabitsInit /\ [][HabitRaceNext]_vars

---------------------------------------------------------------------------
(* create_or_update_entry query by query.  Each request looks for the      *)
(* entry of the habit on the date and then updates the row it found or     *)
(* adds a row, and commits; the requests of different writers interleave   *)
(* between the query and the commit.                                       *)

\* a table without the constraint uix_habit_date
NoUniqueConstraint(es, habit_id, date) == FALSE

\* UniqueConstraint('habit_id', 'date'): the table has a row of the key
UniqueViolation(es, habit_id, date) ==
    \E e \in es : e.habit_id = habit_id /\ e.date = date

\* the queries of the habit, of its challenge and of the existing entry
create_entry_query(r) ==
    /\ calls[r].pc \in {"idle", "done"}
    /\ \E habit_id \in HabitIdPool, date \in EntryDates, completed \in BOOLEAN,
          count \in CountInputs :
          IF OwnedHabit(habit_id) = {}
          THEN Answer(r, 404)
          ELSE LET habit == The(OwnedHabit(habit_id))
                   challenge == CHOOSE c \in challenges : c.id = habit.challenge_id
                   entry_date == normalize_date(date)
                   today == normalize_date(now)
                   challenge_start == normalize_date(challenge.start_date)
                   challenge_end == normalize_date(challenge.end_date)
               IN  IF EntryDateRejected(entry_date, today, challenge_start, challenge_end)
                   THEN Answer(r, 400)
                   ELSE /\ calls' = [calls EXCEPT ![r] =
                               [IdleCall EXCEPT
                                   !.pc = "queried",
                                   !.body = Some([habit_id |-> habit_id,
                                                  date |-> entry_date,
                                                  completed |-> completed,
                                                  count |-> count]),
                                   !.existing_entry =
                                       ExistingEntries(entries, habit_id, entry_date)]]
                        /\ UNCHANGED response
    /\ UNCHANGED <<now, challenges, habits, entries, current_user, normalize_call>>

\* the update of the row found, or db.add(entry), and db.commit().  The
\* UPDATE sets the attributes whose value differs from the one loaded; the
\* INSERT of a second row of a (habit_id, date) raises IntegrityError, which
\* no handler catches.
create_entry_commit(r) ==
    /\ calls[r].pc = "queried"
    /\ LET body == The(calls[r].body)
       IN  IF calls[r].existing_entry # None
           THEN LET loaded == The(calls[r].existing_entry)
                IN  IF \E e \in entries : e.id = loaded.id
                    THEN LET stored == CHOOSE e \in entries : e.id = loaded.id
                             updated ==
                                 [stored EXCEPT
                                     !.completed = IF body.completed # loaded.completed
                                                   THEN body.completed ELSE @,
                                     !.count = IF body.count # loaded.count
                                               THEN body.count ELSE @]
                         IN  /\ entries' = (entries \ {stored}) \cup {updated}
                             /\ response' = Status(200)
                    ELSE /\ response' = Status(500)
                         /\ UNCHANGED entries
           ELSE IF UniqueViolation(entries, body.habit_id, body.date)
                THEN /\ response' = Status(500)
                     /\ UNCHANGED entries
                ELSE /\ Cardinality(entries) < MaxEntries
                     /\ entries' = entries \cup
                           {[id |-> FreshId(EntryIdPool, entries),
                             habit_id |-> body.habit_id,
                             date |-> body.date,
                             completed |-> body.completed,
                             count |-> body.count]}
                     /\ response' = Status(200)
    /\ calls' = [calls EXCEPT ![r].pc = "done"]
    /\ UNCHANGED <<now, challenges, habits, current_user, normalize_call>>

EntryRaceInit ==
    /\ now = Dt(1, 9, NoTz)
    /\ challenges = {CalcChallenge}
    /\ habits = {UsersHabit(1, TRUE)}
    /\ entries = {}
    /\ response = NoResponse
    /\ calls = NoCalls
    /\ normalize_call = NoNormalizeCall
    /\ current_user = test_user

EntryRaceNext ==
    \/ \E r \in Writers : create_entry_query(r)
    \/ \E r \in Writers : create_entry_commit(r)

SpecEntryRace == EntryRaceInit /\ [][EntryRaceNext]_vars

---------------------------------------------------------------------------
(* The terms of the specification, stated on calendar days and on the      *)
(* stored rows, apart from the operators of the handlers.                  *)

HasReport == response.status = 200 /\ response.body # None

Report == The(response.body)

StartDay == The(challenges).start_date.day

TodayDay == now.day

ChallengeDaySet == StartDay..TodayDay

ActiveSet == {h \in habits : h.is_active}

\* the habits active on day d
ActiveOn(d) == {h \in ActiveSet : h.created_at.day <= d}

\* habit h has an entry dated d with completed = true
DoneOn(h, d) == \E e \in entries : e.habit_id = h.id /\ e.date.day = d /\ e.completed

PerfectDay(d) == ActiveOn(d) # {} /\ \A h \in ActiveOn(d) : DoneOn(h, d)

\* the consecutive perfect days counted backward from today - 1
PerfectRunBeforeToday ==
    Cardinality({k \in 1..(TodayDay - StartDay) :
                    \A j \in 1..k : PerfectDay(TodayDay - j)})

\* the longest run of consecutive perfect days in [start, today]
LongestPerfectRun ==
    LET runs == {<<a, b>> \in ChallengeDaySet \X ChallengeDaySet :
                    a <= b /\ \A d \in a..b : PerfectDay(d)}
        lengths == {r[2] - r[1] + 1 : r \in runs} \cup {0}
    IN  CHOOSE n \in lengths : \A m \in lengths : m <= n

\* the sum of f[x] over the x in S
RECURSIVE SumOver(_, _)
SumOver(S, f) ==
    IF S = {} THEN 0
    ELSE LET x == CHOOSE y \in S : TRUE IN f[x] + SumOver(S \ {x}, f)

Rows(seq) == {seq[i] : i \in 1..Len(seq)}

---------------------------------------------------------------------------
(* Claims *)

\* C1: every day reported in last_7_days is marked perfect if and only if
\* some habit is active on it and every habit active on it has a completed
\* entry dated that day.
C1_PerfectDayIff ==
    HasReport =>
        \A r \in Rows(Report.last_7_days) : r.is_perfect <=> PerfectDay(r.date.day)

\* C2: current_streak is the number of consecutive perfect days counted
\* backward from today - 1 down to the challenge start.
C2_CurrentStreakIsPerfectRun ==
    HasReport => Report.current_streak = PerfectRunBeforeToday

\* The second half of C2: an entry handler that writes or removes only
\* entries dated today leaves the current streak of the report unchanged.
TodayEntriesKeepCurrentStreak ==
    [][(/\ challenges # {}
        /\ now' = now
        /\ entries' # entries
        /\ \A e \in (entries \ entries') \cup (entries' \ entries) : e.date.day = TodayDay)
       => Progress(The(challenges), habits, entries, now).current_streak
              = Progress(The(challenges), habits', entries', now).current_streak]_vars

\* C3: longest_streak is the length of the longest run of consecutive
\* perfect days among the days from the challenge start through today.
C3_LongestStreakIsLongestRun ==
    HasReport => Report.longest_streak = LongestPerfectRun

\* C4: in every report current_streak <= longest_streak.
C4_CurrentAtMostLongest ==
    HasReport => Report.current_streak <= Report.longest_streak

C4_Witness ==
    HasReport /\ Report.current_streak >= 1 /\ Report.longest_streak > Report.current_streak

ClaimCurrentDay == Min(Max(0, TodayDay - StartDay) + 1, 30)

\* the activation day of a habit
Activation(h) == Max(h.created_at.day, StartDay)

\* C6: total_possible_habits is the sum over the active habits of
\* max(0, min((today - activation) + 1, current_day)); no habit is counted
\* for a day before its activation, and a habit created before the challenge
\* counts from the challenge start.
C6_TotalPossibleHabits ==
    HasReport =>
        /\ Report.total_possible_habits =
               SumOver(ActiveSet,
                       [h \in ActiveSet |->
                           Max(0, Min((TodayDay - Activation(h)) + 1, ClaimCurrentDay))])
        /\ \A r \in Rows(Report.habit_progress) :
               \A h \in ActiveSet :
                   h.id = r.habit_id =>
                       /\ r.total_days <= Max(0, TodayDay - Activation(h) + 1)
                       /\ (h.created_at.day < StartDay /\ StartDay <= TodayDay)
                              => r.total_days = Report.current_day

C6_Witness ==
    /\ HasReport
    /\ \E h \in ActiveSet : h.created_at.day > StartDay /\ h.created_at.day < TodayDay
    /\ \E h \in ActiveSet : h.created_at.day < StartDay
    /\ Report.total_possible_habits > 0

\* the days of the challenge so far that have no stored entry
DaysWithoutEntries == {d \in ChallengeDaySet : ~\E e \in entries : e.date.day = d}

\* a day without entries is not perfect and has no completion
NoEntriesNoCompletion ==
    /\ \A r \in Rows(Report.last_7_days) :
           r.date.day \in DaysWithoutEntries => ~r.is_perfect /\ r.completed_count = 0
    /\ Report.total_habits_completed =
           Cardinality({e \in entries : /\ e.completed
                                        /\ e.habit_id \in {h.id : h \in ActiveSet}
                                        /\ e.date.day \in ChallengeDaySet \ DaysWithoutEntries})

\* C7 as claimed: total_possible_habits is the sum of total_count(d) over
\* the days d from the challenge start through today, and a day without
\* entries is never perfect and adds nothing to total_habits_completed.
C7_DenominatorAllDays ==
    HasReport =>
        /\ Report.total_possible_habits =
               SumOver(ChallengeDaySet, [d \in ChallengeDaySet |-> Cardinality(ActiveOn(d))])
        /\ NoEntriesNoCompletion

\* the days from the challenge start through today among the last 30 days
CountedDays == {d \in ChallengeDaySet : d > TodayDay - 30}

\* C7 as amended: total_possible_habits is the sum of total_count(d) over
\* the days d from the challenge start through today that are among the 30
\* days ending today, and a day without entries is never perfect and adds
\* nothing to total_habits_completed.
C7_DenominatorCountedDays ==
    HasReport =>
        /\ Report.total_possible_habits =
               SumOver(CountedDays, [d \in CountedDays |-> Cardinality(ActiveOn(d))])
        /\ NoEntriesNoCompletion

C7_Witness ==
    /\ HasReport
    /\ ActiveSet # {}
    /\ \E d \in DaysWithoutEntries : ActiveOn(d) # {}
    /\ \E d \in ChallengeDaySet \ DaysWithoutEntries : TRUE
    /\ Report.total_possible_habits > 0

\* 100 * completed / total rounded half-up, and 0 for total = 0
HalfUpPercentage(completed, total) ==
    IF total > 0 THEN (200 * completed + total) \div (2 * total) ELSE 0

\* C8: every completion percentage of the report is 100 * completed / total
\* rounded half-up, and 0 when total = 0.
C8_PercentagesHalfUp ==
    HasReport =>
        /\ Report.overall_completion_percentage =
               HalfUpPercentage(Report.total_habits_completed, Report.total_possible_habits)
        /\ \A r \in Rows(Report.last_7_days) :
               r.completion_percentage = HalfUpPercentage(r.completed_count, r.total_count)
        /\ \A r \in Rows(Report.habit_progress) :
               r.completion_percentage = HalfUpPercentage(r.completed_count, r.total_days)

\* C9: the report of a challenge without active habits is answered without
\* error and has current_day = 0, total_days = 30, days_elapsed = 0, all
\* counts, the percentage and both streaks 0, and both lists empty.
C9_NoActiveHabitsReport ==
    (response.body # None /\ ActiveSet = {}) =>
        /\ response.status = 200
        /\ Report.current_day = 0
        /\ Report.total_days = 30
        /\ Report.days_elapsed = 0
        /\ Report.total_habits_completed = 0
        /\ Report.total_possible_habits = 0
        /\ Report.overall_completion_percentage = 0
        /\ Report.current_streak = 0
        /\ Report.longest_streak = 0
        /\ Report.last_7_days = <<>>
        /\ Report.habit_progress = <<>>

C9_Witness ==
    /\ HasReport
    /\ ActiveSet = {}
    /\ habits # {}
    /\ \E e \in entries : e.completed
    /\ TodayDay > StartDay

\* the days so far on which some habit is active
DaysWithActiveHabits == {d \in ChallengeDaySet : ActiveOn(d) # {}}

\* C10: a day on which no habit is active is never reported perfect and
\* never counts in a streak.
C10_PerfectNeedsActiveHabit ==
    HasReport =>
        /\ \A r \in Rows(Report.last_7_days) : r.is_perfect => r.total_count > 0
        /\ Report.longest_streak <= Cardinality(DaysWithActiveHabits)
        /\ Report.current_streak <= Cardinality(DaysWithActiveHabits \ {TodayDay})

C10_Witness ==
    /\ HasReport
    /\ ActiveSet # {}
    /\ \E r \in Rows(Report.last_7_days) : r.total_count = 0
    /\ \E r \in Rows(Report.last_7_days) : r.is_perfect

\* the stored entries with completed = false
OpenEntries == {e \in entries : ~e.completed}

\* the entries of the active habits dated from the challenge start to today
\* that have completed = true
CompletedEntries ==
    {e \in entries : /\ e.completed
                     /\ e.habit_id \in {h.id : h \in ActiveSet}
                     /\ e.date.day \in ChallengeDaySet}

\* C11: an entry with completed = false counts nowhere in the report,
\* whatever its count: the completed counts of the report, overall, per
\* habit and per day, count only entries with completed = true, and the
\* whole report is the one of the store without the entries that have
\* completed = false.
C11_OpenEntriesCountNothing ==
    HasReport =>
        /\ Report.total_habits_completed = Cardinality(CompletedEntries)
        /\ \A r \in Rows(Report.habit_progress) :
               r.completed_count =
                   Cardinality({e \in CompletedEntries : e.habit_id = r.habit_id})
        /\ \A r \in Rows(Report.last_7_days) :
               r.completed_count =
                   Cardinality({e \in CompletedEntries : e.date.day = r.date.day})
        /\ Report = Progress(The(challenges), habits, entries \ OpenEntries, now)

C11_Witness ==
    /\ HasReport
    /\ Cardinality(ActiveSet) = 2
    /\ \E e \in OpenEntries :
          /\ e.count # None /\ The(e.count) > 0
          /\ e.date.day = TodayDay
          /\ \E g \in CompletedEntries : g.date.day = TodayDay /\ g.habit_id # e.habit_id
    /\ \E r \in Rows(Report.last_7_days) : r.date.day = TodayDay /\ ~r.is_perfect

\* the habit row with the given id
HabitOf(id) == CHOOSE h \in habits : h.id = id

\* the entries of the habits that are not active
ArchivedEntries == {e \in entries : ~\E h \in ActiveSet : h.id = e.habit_id}

\* C12: habit_progress has exactly one row per active habit, in display
\* order; the counts of the report count active habits and their entries
\* only, and the whole report is the one of the store without the habits
\* that are not active and without their entries.
C12_OnlyActiveHabits ==
    HasReport =>
        /\ Len(Report.habit_progress) = Cardinality(ActiveSet)
        /\ {r.habit_id : r \in Rows(Report.habit_progress)} = {h.id : h \in ActiveSet}
        /\ \A i, j \in 1..Len(Report.habit_progress) :
               i < j => HabitOf(Report.habit_progress[i].habit_id).order
                            <= HabitOf(Report.habit_progress[j].habit_id).order
        /\ Report.total_habits_completed = Cardinality(CompletedEntries)
        /\ \A r \in Rows(Report.last_7_days) :
               /\ r.total_count = Cardinality(ActiveOn(r.date.day))
               /\ r.completed_count =
                      Cardinality({e \in CompletedEntries : e.date.day = r.date.day})
        /\ Report = Progress(The(challenges), ActiveSet, entries \ ArchivedEntries, now)

C12_Witness ==
    /\ HasReport
    /\ Cardinality(ActiveSet) = 1
    /\ \E h \in habits \ ActiveSet :
          /\ \A a \in ActiveSet : h.order < a.order
          /\ \E e \in ArchivedEntries : e.habit_id = h.id /\ e.completed
    /\ Report.longest_streak > 0

\* the first day reported in last_7_days
Last7FirstDay == Max(TodayDay - 6, StartDay)

\* last_7_days has one row per day from max(today - 6, start) to today, the
\* oldest first; each row counts the habits active on its day and has
\* percentage 0 when none is
Last7DaysRowPerDay ==
    /\ Len(Report.last_7_days) = Max(0, TodayDay - Last7FirstDay + 1)
    /\ \A i \in 1..Len(Report.last_7_days) :
           /\ Report.last_7_days[i].date = Dt(Last7FirstDay + i - 1, 0, NoTz)
           /\ Report.last_7_days[i].total_count
                  = Cardinality(ActiveOn(Last7FirstDay + i - 1))
           /\ Report.last_7_days[i].total_count = 0
                  => Report.last_7_days[i].completion_percentage = 0

ProgressWritesNothing == [][UNCHANGED <<challenges, habits, entries>>]_vars

\* the requests that have answered with a report
Answered == {r \in Readers : calls[r].pc = "done" /\ calls[r].result # None}

\* two requests answered on the same day have the same report
SameDaySameReport ==
    \A r1, r2 \in Answered :
        calls[r1].today = calls[r2].today => calls[r1].result = calls[r2].result

TotalCompleted(es) ==
    LET hseq == ActiveHabits(habits)
    IN  IF hseq = <<>> THEN 0
        ELSE CompletedCount(AllEntries(hseq, es,
                                       normalize_date(The(challenges).start_date),
                                       normalize_date(now)))

\* C15: a POST of a completed entry dated today for an active habit, the
\* other rows and the day staying as they are, never decreases
\* total_habits_completed of the report.
C15_CompletedTodayNeverDecreases ==
    [][\A habit_id \in HabitIdPool, date \in EntryDates, count \in CountInputs :
          (/\ date.day = TodayDay
           /\ \E h \in ActiveSet : h.id = habit_id
           /\ post_habit_entry(habit_id, date, TRUE, count))
          => TotalCompleted(entries') >= TotalCompleted(entries)]_vars

C15_Witness ==
    /\ response.status = 200
    /\ \E e \in entries :
          /\ e.completed
          /\ e.date.day = TodayDay
          /\ \E h \in ActiveSet : h.id = e.habit_id
    /\ \E e \in entries : ~e.completed
    /\ TotalCompleted(entries) = 1

EndDay == The(challenges).end_date.day

\* the calendar day d is after today, before the challenge start or after
\* the challenge end
DayOutsideWindow(d) == d > TodayDay \/ d < StartDay \/ d > EndDay

\* C16: a POST of an entry for an unknown habit is answered 404, one whose
\* date falls after today, before the challenge start or after the
\* challenge end is answered 400, and neither creates or changes an entry;
\* a POST with a date from the challenge start to the earlier of today and
\* the challenge end is accepted and its entry stored.
C16_EntryDateValidation ==
    [][\A habit_id \in HabitIdPool, date \in EntryDates, completed \in BOOLEAN,
          count \in CountInputs :
          post_habit_entry(habit_id, date, completed, count) =>
              IF ~\E h \in habits : h.id = habit_id
              THEN response'.status = 404 /\ entries' = entries
              ELSE IF DayOutsideWindow(date.day)
              THEN response'.status = 400 /\ entries' = entries
              ELSE /\ response'.status = 200
                   /\ \E e \in entries' : /\ e.habit_id = habit_id
                                          /\ e.date.day = date.day
                                          /\ e.completed = completed
                                          /\ e.count = count]_vars

C16_Witness ==
    /\ response.status = 400
    /\ entries # {}
    /\ TodayDay > EndDay
    /\ \E e \in entries : e.date.day = EndDay

\* at most one entry per habit and calendar day
OneEntryPerHabitDay ==
    \A e1, e2 \in entries :
        (e1.habit_id = e2.habit_id /\ e1.date.day = e2.date.day) => e1 = e2

\* a POST for a habit and day that have an entry sets the completed flag and
\* the count of that entry and adds no row
PostUpdatesInPlace ==
    [][\A habit_id \in HabitIdPool, date \in EntryDates, completed \in BOOLEAN,
          count \in CountInputs :
          \A e \in entries :
              (/\ e.habit_id = habit_id
               /\ e.date.day = date.day
               /\ post_habit_entry(habit_id, date, completed, count))
              => entries' = (entries \ {e})
                     \cup {[e EXCEPT !.completed = completed, !.count = count]}]_vars

\* C17: whatever entry handlers are called, no habit has two entries on one
\* calendar day, and a POST for a habit and day that already have an entry
\* updates completed and count of that entry, keeping its id, in place of
\* adding a row.
C17_OneEntryPerHabitDay == []OneEntryPerHabitDay /\ PostUpdatesInPlace

C17_Witness ==
    /\ response.status = 200
    /\ Cardinality(entries) = 2
    /\ \E e \in entries : e.id = 1 /\ e.completed /\ e.count # None
    /\ \E e1, e2 \in entries : e1.habit_id = e2.habit_id /\ e1.date.day # e2.date.day

\* C18: every stored entry has a naive date at midnight, from the challenge
\* start to the challenge end and not after today.
C18_StoredDatesInWindow ==
    \A e \in entries :
        /\ e.date.tz = NoTz
        /\ e.date.hour = 0
        /\ StartDay <= e.date.day
        /\ e.date.day <= EndDay
        /\ e.date.day <= TodayDay

C18_Witness ==
    /\ \E e \in entries : e.date.day = StartDay /\ The(challenges).start_date.hour > 0
    /\ \E e \in entries : e.date.day = TodayDay
    /\ TodayDay > StartDay

\* the habit rows of the next state that the step created
CreatedRows == {h \in habits' : h.id \notin {g.id : g \in habits}}

\* a request for n new habits is refused: 400 and no habit row written
CreateRefused == response'.status = 400 /\ habits' = habits

\* a request for n new habits is served: 201 and n new active rows, the
\* rows there were staying as they are
CreateServed(n) ==
    /\ response'.status = 201
    /\ habits \subseteq habits'
    /\ CreatedRows = habits' \ habits
    /\ Cardinality(CreatedRows) = n
    /\ \A h \in CreatedRows : h.is_active

ForeignChallenge(challenge_id) ==
    \E c \in challenges : c.id = challenge_id /\ c.user_id # current_user

\* the habit of the id belongs to a challenge of a user other than the caller
ForeignHabit(habit_id) ==
    \E h \in habits : h.id = habit_id /\ ForeignChallenge(h.challenge_id)

ForeignEntry(entry_id) ==
    \E e \in entries : e.id = entry_id /\ ForeignHabit(e.habit_id)

\* a request of any handler that addresses the challenge of the id
ChallengeRequest(challenge_id) ==
    \/ get_challenge_by_id(challenge_id)
    \/ \E status \in StatusInputs : put_challenge(challenge_id, status)
    \/ delete_challenge_by_id(challenge_id)
    \/ get_progress(challenge_id)
    \/ get_habits_of(challenge_id)
    \/ \E order \in OrderInputs : post_habit(challenge_id, order)
    \/ \E orders \in BulkBodies : post_habits_bulk(challenge_id, orders)
    \/ \E date \in EntryDates : get_daily_entries(challenge_id, date)

\* a request of any handler that addresses the habit of the id
HabitRequest(habit_id) ==
    \/ get_habit_by_id(habit_id)
    \/ \E order \in {None} \cup {Some(o) : o \in OrderInputs},
          is_active \in {None, Some(TRUE), Some(FALSE)} :
          put_habit(habit_id, order, is_active)
    \/ delete_habit_by_id(habit_id)
    \/ get_entries_of(habit_id)
    \/ \E date \in EntryDates, completed \in BOOLEAN, count \in CountInputs :
          post_habit_entry(habit_id, date, completed, count)

\* a request of any handler that addresses the entry of the id
EntryRequest(entry_id) ==
    \/ \E completed \in {None, Some(TRUE), Some(FALSE)}, count \in CountInputs :
          put_entry(entry_id, completed, count)
    \/ delete_entry_by_id(entry_id)

\* the answer to an id that names no row, with the store left as it was
AnsweredNotFound ==
    /\ response'.status = 404
    /\ response'.body = None
    /\ UNCHANGED <<challenges, habits, entries>>

\* C21: a request of any challenge, habit, entry or progress handler that
\* addresses a challenge, habit or entry of another user is answered 404
\* without a body and changes no row, as a request for an id of no row is;
\* get_challenges answers with the challenges of the caller and no other.
C21_NoForeignAccess ==
    [][/\ \A id \in ChallengeIdPool :
             (ForeignChallenge(id) \/ \A c \in challenges : c.id # id)
             /\ ChallengeRequest(id) => AnsweredNotFound
       /\ \A id \in HabitIdPool :
             (ForeignHabit(id) \/ \A h \in habits : h.id # id)
             /\ HabitRequest(id) => AnsweredNotFound
       /\ \A id \in EntryIdPool :
             (ForeignEntry(id) \/ \A e \in entries : e.id # id)
             /\ EntryRequest(id) => AnsweredNotFound
       /\ get_challenges =>
             /\ response'.status = 200
             /\ \A c \in The(response'.body) : c.user_id = current_user
             /\ \A c \in challenges :
                   c.user_id = current_user => c \in The(response'.body)]_vars

\* a request was answered 404 while the store holds a challenge of another
\* user with a habit and an entry, and a challenge of the caller
C21_Witness ==
    /\ response.status = 404
    /\ \E id \in ChallengeIdPool : ForeignChallenge(id)
    /\ \E id \in HabitIdPool : ForeignHabit(id)
    /\ \E id \in EntryIdPool : ForeignEntry(id)
    /\ \E c \in challenges : c.user_id = current_user

\* no habit without its challenge, no entry without its habit
NoOrphans ==
    /\ \A h \in habits : \E c \in challenges : c.id = h.challenge_id
    /\ \A e \in entries : \E h \in habits : h.id = e.habit_id

\* C22: delete_challenge of a challenge of the caller deletes the challenge,
\* its habits and the entries of those habits, and no other row; in every
\* state reached by creating and deleting challenges, habits and entries,
\* each habit has its challenge and each entry has its habit.
C22_DeleteChallengeCascades ==
    /\ []NoOrphans
    /\ [][\A c \in challenges :
             c.user_id = current_user /\ delete_challenge_by_id(c.id) =>
                 /\ response'.status = 204
                 /\ challenges' = challenges \ {c}
                 /\ habits' = {h \in habits : h.challenge_id # c.id}
                 /\ entries' = {e \in entries :
                                  \E h \in habits' : h.id = e.habit_id}]_vars

\* a challenge was deleted and no row is left; the stores of CascadeInit
\* have a habit, and no handler but delete_challenge deletes a habit row
C22_Witness ==
    /\ response.status = 204
    /\ challenges = {}
    /\ habits = {}
    /\ entries = {}

C24_FiguresWithinTotals ==
    HasReport =>
        /\ Report.total_habits_completed <= Report.total_possible_habits
        /\ Report.overall_completion_percentage \in 0..100
        /\ \A h \in Rows(Report.habit_progress) :
              /\ h.completed_count <= h.total_days
              /\ h.completion_percentage \in 0..100
        /\ \A r \in Rows(Report.last_7_days) :
              /\ r.completed_count <= r.total_count
              /\ r.completion_percentage \in 0..100

\* C25: every stored entry is dated on or after the activation date of its
\* habit, the later of the creation day of the habit and the challenge
\* start.
C25_EntriesAfterActivation ==
    \A e \in entries : \A h \in habits :
        h.id = e.habit_id => Activation(h) <= e.date.day

\* the streaks of the report of the store, as a pair
Streaks(es) ==
    LET report == Progress(The(challenges), habits, es, now)
    IN  <<report.current_streak, report.longest_streak>>

StreaksNotDecreased ==
    /\ Streaks(entries)[1] <= Streaks(entries')[1]
    /\ Streaks(entries)[2] <= Streaks(entries')[2]

\* C26: a request of create_or_update_entry that creates an entry with
\* completed = true or turns an entry from not completed to completed, and a
\* request of update_entry that turns an entry from not completed to
\* completed, leave current_streak and longest_streak of the report at least
\* what they were.
C26_CompletionKeepsStreaks ==
    [][/\ \A h \in habits, date \in EntryDates, count \in CountInputs :
             (/\ response'.status = 200
              /\ \A e \in ExistingEntries(entries, h.id, normalize_date(date)) :
                    ~e.completed
              /\ post_habit_entry(h.id, date, TRUE, count))
             => StreaksNotDecreased
       /\ \A e \in entries, count \in CountInputs :
             (/\ ~e.completed
              /\ response'.status = 200
              /\ put_entry(e.id, Some(TRUE), count))
             => StreaksNotDecreased]_vars

\* the calendar days from the activation of the habit through the earlier
\* of today and the challenge end
DaysThroughEnd(h) == Max(0, Min(TodayDay, EndDay) - Activation(h) + 1)

\* C27: total_days of each habit of the report is at most the number of
\* calendar days from the activation of the habit through the earlier of
\* today and the challenge end date, and total_possible_habits is at most
\* the sum of these numbers over the active habits.
C27_TotalDaysWithinChallenge ==
    HasReport =>
        /\ \A r \in Rows(Report.habit_progress) :
              r.total_days <= DaysThroughEnd(HabitOf(r.habit_id))
        /\ Report.total_possible_habits
              <= SumOver(ActiveSet, [h \in ActiveSet |-> DaysThroughEnd(h)])

\* C28: after any sequence of requests of create_habit, create_habits_bulk,
\* update_habit and delete_habit, the challenge has at most 10 active
\* habits.
C28_AtMostTenActive == Cardinality(ActiveSet) <= 10

\* C29: when requests of create_habit and create_habits_bulk for one
\* challenge interleave, each counting the active habits before the other
\* commits, the challenge has at most 10 active habits after them.
C29_RaceKeepsLimit ==
    (\A r \in Writers : calls[r].pc \in {"idle", "done"})
        => Cardinality(ActiveSet) <= 10

\* a request that found no entry of its key commits after a row of the key
\* was committed
LateInsert(r) ==
    /\ calls[r].pc = "queried"
    /\ calls[r].existing_entry = None
    /\ \E e \in entries : /\ e.habit_id = The(calls[r].body).habit_id
                          /\ e.date = The(calls[r].body).date

\* C30: when requests of create_or_update_entry for one habit and one
\* normalized date interleave, each looking for the entry before the other
\* commits, the store holds at most one entry of the habit and date at any
\* time; the commit of the request that inserts second is answered with an
\* error and leaves every entry as it was.
C30_RaceKeepsOneEntry ==
    /\ []OneEntryPerHabitDay
    /\ [][\A r \in Writers :
             LateInsert(r) /\ create_entry_commit(r) =>
                 /\ response'.status = 500
                 /\ entries' = entries]_vars

\* the later of two interleaved inserts has failed: the request found no
\* entry, the store holds the entry of the other request, with another flag
C30_Witness ==
    /\ response.status = 500
    /\ \E r \in Writers :
          /\ calls[r].pc = "done"
          /\ calls[r].body # None
          /\ calls[r].existing_entry = None
          /\ \E e \in entries : /\ e.habit_id = The(calls[r].body).habit_id
                                /\ e.date = The(calls[r].body).date
                                /\ e.completed # The(calls[r].body).completed

=============================================================================
